---- MODULE Spec2Model ----
(***************************************************************************)
(* RFQ sender: the batch run of scripts/email_from_list.py, and the        *)
(* command-line run of scripts/rfq_sender.py: argument validation, the     *)
(* attachment search and check, send_email with its retries, and the       *)
(* vendor loop of main().                                                  *)
(*                                                                         *)
(* main() loads the queue and the vendor catalog (load_data), initializes  *)
(* Outlook and runs process_queue, which visits every quote, every process *)
(* of the quote and every suitable vendor of the process, makes one        *)
(* mail-sink call (create_draft_email) and one audit record (log_email)    *)
(* per vendor, and returns (successful_drafts, total_quotes).              *)
(*                                                                         *)
(* Strings are TLA+ strings.  A pandas missing value is the value NaN.     *)
(* str.lower on process and spec names is a table over the names the       *)
(* model uses; str.strip, the substring test and the handling of file      *)
(* names work on the characters.  A Python dict is a sequence of entries   *)
(* in insertion order.                                                     *)
(*                                                                         *)
(* Inputs: quote_id and process are set in every row; part_number, spec    *)
(* and file_path may be missing values; every contact row has a Vendor     *)
(* and a type.  Every vendor_process dict has a name, every vendor spec a  *)
(* number.  log_email's append succeeds.  The Outlook calls of             *)
(* create_draft_email save the draft, save it without an attachment that   *)
(* is no file any more, or raise.  Paths use '/' as the separator.         *)
(*                                                                         *)
(* rfq_sender.py: file names are matched character by character (the       *)
(* POSIX flavour of pathlib); part numbers and process names hold no glob  *)
(* wildcard of their own and no path separator.  Every vendor of the       *)
(* configuration has a name, an email and an approval_level that are       *)
(* strings; both configuration files exist and the templates render.  An   *)
(* SMTP attempt sends the message, raises SMTPServerDisconnected, raises   *)
(* another SMTPException, or raises an Exception that is no SMTPException. *)
(* The INSERT of log_rfq succeeds.                                         *)
(***************************************************************************)
EXTENDS Integers, Sequences, FiniteSets, TLC

VARIABLES
    files,              \* which of the three input files exist on disk
    columns,            \* the queue's column names, after the renaming of load_data
    queue,              \* the rows of the queue file, in file order
    contacts,           \* the rows of the contacts file
    vendor_options,     \* the 'vendors' list of the capability tree
    template_exists,    \* os.path.exists(template_path)
    vendor_info,        \* the catalog load_data returns
    pc,                 \* where main() is
    error,              \* the exception that ended the run, "none" otherwise
    qi,                 \* index of the current quote in unique_quotes
    pi,                 \* index of the current process in processes_needed
    phase,              \* "pair": about to match a pair; "vendor": in the vendor loop
    suitable_vendors,   \* the vendors matched for the current pair
    vi,                 \* index of the current vendor in suitable_vendors
    successful_drafts,  \* process_queue's success counter
    total_quotes,       \* process_queue's pair counter
    audit,              \* the rows log_email appended, oldest first
    calls,              \* the calls made to create_draft_email, oldest first
    sink,               \* what the create_draft_email call of the latest step did,
                        \* "none" when the latest step made no call
    args,               \* rfq_sender.py: the argparse.Namespace of parse_args
    validation,         \* rfq_sender.py: what validate_args returned, NotValidated before
    call,               \* the get_attachments or check_attachments call under test
    returned,           \* what that call returned, NotReturned before
    mail,               \* the arguments of the send_email call in progress, NoMail without one
    attempt,            \* send_email's loop variable, 0 outside the loop
    smtp,               \* what each SMTP attempt of the call did, oldest first
    sleeps,             \* the seconds of each time.sleep of the call, oldest first
    result,             \* what send_email returned, Pending before it returns
    dry_run,            \* args.dry_run
    environ,            \* os.environ: ENABLE_CUI_PROTECTION, Unset when not set
    config,             \* config["vendors"]["vendors"]
    mpc,                \* where main() of rfq_sender.py is
    matching_vendors,   \* main's list of the vendors that list the process
    vendor_index,       \* position of main's vendor loop in matching_vendors
    success_count,      \* main's success counter
    rfq_log,            \* the rows of table rfq_log added by this run, oldest first
    temp                \* the files in directory temp

vars == <<files, columns, queue, contacts, vendor_options, template_exists,
          vendor_info, pc, error, qi, pi, phase, suitable_vendors, vi,
          successful_drafts, total_quotes, audit, calls, sink, args, validation,
          call, returned, mail, attempt, smtp, sleeps, result, dry_run, environ,
          config, mpc, matching_vendors, vendor_index, success_count, rfq_log, temp>>

\* the state of the helper call under test
helper == <<call, returned>>

\* the state of a send_email call
sending == <<mail, attempt, smtp, sleeps, result>>

\* the state of main() of rfq_sender.py
mainvars == <<dry_run, environ, config, mpc, matching_vendors, vendor_index,
              success_count, rfq_log, temp>>

\* the state of rfq_sender.py, which the batch run leaves alone
cli == <<args, validation, helper, sending, mainvars>>

inputs == <<files, columns, queue, contacts, vendor_options, template_exists>>

loopvars == <<qi, pi, phase, suitable_vendors, vi>>

-----------------------------------------------------------------------------
(* Values                                                                  *)

NaN == "NaN"

\* str.lower() on the names of the model
Lower(s) ==
    CASE s = "Anodize" -> "anodize"
      [] s = "ANODIZE" -> "anodize"
      [] s = "Plating" -> "plating"
      [] s = "MIL-A-8625" -> "mil-a-8625"
      [] s = "AMS-2404" -> "ams-2404"
      [] OTHER -> s

\* the i-th character of a string, as a string
Char(s, i) == SubSeq(s, i, i)

RECURSIVE lstrip(_)
lstrip(s) ==
    IF Len(s) > 0 /\ Char(s, 1) = " " THEN lstrip(SubSeq(s, 2, Len(s))) ELSE s

RECURSIVE rstrip(_)
rstrip(s) ==
    IF Len(s) > 0 /\ Char(s, Len(s)) = " " THEN rstrip(SubSeq(s, 1, Len(s) - 1)) ELSE s

\* str.strip(): the blanks at both ends removed (blanks are spaces here)
Strip(s) == rstrip(lstrip(s))

\* the substring test 'b in a'
Contains(a, b) ==
    \E i \in 1..(Len(a) + 1 - Len(b)) : SubSeq(a, i, i + Len(b) - 1) = b

\* Elements of a sequence
Range(s) == {s[i] : i \in 1..Len(s)}

\* the distinct values, the one that appears last first
RECURSIVE unique_reversed(_)
unique_reversed(s) ==
    IF s = <<>> THEN <<>>
    ELSE LET back == unique_reversed(Tail(s))
         IN IF Head(s) \in Range(back) THEN back ELSE Append(back, Head(s))

\* Series.unique(): the distinct values in order of first appearance
RECURSIVE unique(_)
unique(s) ==
    IF s = <<>> THEN <<>>
    ELSE LET front == unique(SubSeq(s, 1, Len(s) - 1))
             last == s[Len(s)]
         IN IF last \in Range(front) THEN front ELSE Append(front, last)

\* [f(s[1]), ..., f(s[n])] for a record field
Column(rows, c) == [i \in 1..Len(rows) |-> rows[i][c]]

-----------------------------------------------------------------------------
(* load_data                                                               *)

AllColumns == {"quote_id", "line", "part_number", "callout", "process", "spec",
               "qty", "file_path"}

\* the file location column is not required
required_queue_columns_no_file == {"quote_id", "part_number", "process"}

required_queue_columns == {"quote_id", "part_number", "process", "file_path"}

\* the column of the contacts file that holds 'Primary', if a row has one
primary_column(cs) == \E i \in 1..Len(cs) : cs[i].primary = "Primary"

primary_contacts(cs) ==
    IF primary_column(cs)
    THEN SelectSeq(cs, LAMBDA r : r.type = "finishing" /\ r.primary = "Primary")
    ELSE SelectSeq(cs, LAMBDA r : r.type = "finishing")

\* index of the entry of dict d with key k, 0 when there is none
RECURSIVE KeyIndex(_, _)
KeyIndex(d, k) ==
    IF d = <<>> THEN 0
    ELSE IF d[Len(d)].vendor_id = k THEN Len(d)
    ELSE KeyIndex(SubSeq(d, 1, Len(d) - 1), k)

\* d[k] = v: replaces the value in place, or appends a new key
DictSet(d, k, v) ==
    IF KeyIndex(d, k) = 0 THEN Append(d, v)
    ELSE [d EXCEPT ![KeyIndex(d, k)] = v]

\* the cell as it is, blanks included
email_of_unstripped(row) == IF row.Email # NaN THEN row.Email ELSE ""

\* line 167: the email of a contact row, "" for an empty cell
email_of(row) == IF row.Email # NaN THEN Strip(row.Email) ELSE ""

\* the loop over primary_contacts that fills vendor_info
RECURSIVE contact_entries(_)
contact_entries(cs) ==
    IF cs = <<>> THEN <<>>
    ELSE LET front == contact_entries(SubSeq(cs, 1, Len(cs) - 1))
             row == cs[Len(cs)]
             vendor_id == Strip(row.Vendor)
             email == email_of(row)
         IN IF email = "" THEN front
            ELSE DictSet(front, vendor_id,
                         [vendor_id |-> vendor_id, email |-> email,
                          vendor_name |-> vendor_id,
                          has_processes |-> FALSE, processes |-> <<>>])

\* the loop over vendor_options['vendors'] that adds the 'processes' key
RECURSIVE enrich(_, _)
enrich(info, vs) ==
    IF vs = <<>> THEN info
    ELSE LET front == enrich(info, SubSeq(vs, 1, Len(vs) - 1))
             vendor == vs[Len(vs)]
             k == KeyIndex(front, vendor.name)
         IN IF k # 0 /\ vendor.has_processes
            THEN [front EXCEPT ![k].has_processes = TRUE,
                               ![k].processes = vendor.processes]
            ELSE front

BuildVendorInfo(cs, vs) == enrich(contact_entries(primary_contacts(cs)), vs)

files_exist == files.queue /\ files.contacts /\ files.vendor_options

missing_queue_columns == required_queue_columns \ columns

load_data ==
    /\ pc = "start"
    /\ IF ~files_exist
       THEN /\ pc' = "exit1"
            /\ error' = "FileNotFoundError"
            /\ UNCHANGED vendor_info
       ELSE IF missing_queue_columns # {}
       THEN /\ pc' = "exit1"
            /\ error' = "ValueError"
            /\ UNCHANGED vendor_info
       ELSE /\ pc' = "loaded"
            /\ vendor_info' = BuildVendorInfo(contacts, vendor_options)
            /\ UNCHANGED error
    /\ sink' = "none"
    /\ UNCHANGED <<cli, inputs, loopvars, successful_drafts, total_quotes, audit, calls>>

\* initialize_outlook: win32.Dispatch succeeds or raises
initialize_outlook ==
    /\ pc = "loaded"
    /\ \E ok \in BOOLEAN :
          IF ok THEN pc' = "running" /\ UNCHANGED error
          ELSE pc' = "exit1" /\ error' = "RuntimeError"
    /\ sink' = "none"
    /\ UNCHANGED <<cli, inputs, vendor_info, loopvars, successful_drafts, total_quotes,
                   audit, calls>>

-----------------------------------------------------------------------------
(* The file system seen by the attachment resolution of process_queue       *)

Entry(d, n, k) == [dir |-> d, name |-> n, kind |-> k]

\* the directory entries, in listing order; a "link" is a symbolic link whose
\* target is gone
Disk ==
    << Entry("C:", "rfq", "dir"),
       Entry("C:/rfq", "PN123.pdf", "file"),
       Entry("C:", "jobs", "dir"),
       Entry("C:/jobs", "PN123_drawing.pdf", "file"),
       Entry("C:/jobs", "PN123_quote.xlsx", "file"),
       Entry("C:", "parts", "dir"),
       Entry("C:/parts", "PN123_notes.DOCX", "file"),
       Entry("C:/parts", "PN123_old.pdf", "link"),
       Entry("C:/parts", "PN999_drawing.pdf", "file"),
       Entry("C:/parts", "sub", "dir"),
       Entry("C:/parts/sub", "PN123", "dir"),
       Entry("C:/parts/sub/PN123", "rev2_PN123.PDF", "file"),
       Entry("C:/parts/sub/PN123", "PN123_README", "file") >>

\* os.path.join, with '/' as the separator
join(root, file) == root \o "/" \o file

DiskPaths == [i \in 1..Len(Disk) |-> join(Disk[i].dir, Disk[i].name)]

DiskKinds ==
    [p \in Range(DiskPaths) |-> Disk[CHOOSE i \in 1..Len(Disk) : DiskPaths[i] = p].kind]

\* what is at path p
PathKind(p) == IF p \in DOMAIN DiskKinds THEN DiskKinds[p] ELSE "missing"

\* os.path.exists, os.path.isdir: both follow symbolic links
exists(p) == PathKind(p) \in {"file", "dir"}

isdir(p) == PathKind(p) = "dir"

\* a name that is there counts, also a link whose target is gone
isfile_lexists(p) == PathKind(p) \in {"file", "link"}

\* os.path.isfile
isfile(p) == PathKind(p) = "file"

\* the 'files' and the 'dirs' os.walk reports for one directory
walk_files(top) ==
    SelectSeq(Disk, LAMBDA e : e.dir = top /\ e.kind # "dir")

walk_dirs(top) ==
    SelectSeq(Disk, LAMBDA e : e.dir = top /\ e.kind = "dir")

\* os.walk(top), top-down: the (root, file) pairs in the order the two
\* loops of lines 844-845 visit them
RECURSIVE walk(_)
RECURSIVE walk_each(_, _)
walk_each(top, dirs) ==
    IF dirs = <<>> THEN <<>>
    ELSE walk(join(top, Head(dirs).name)) \o walk_each(top, Tail(dirs))

walk(top) ==
    [i \in 1..Len(walk_files(top)) |-> [root |-> top, file |-> walk_files(top)[i].name]]
    \o walk_each(top, walk_dirs(top))

\* os.path.splitext(...)[1]: from the last dot of the name, leading dots apart
RECURSIVE splitext(_, _)
splitext(file, i) ==
    IF i <= 1 THEN ""
    ELSE IF Char(file, i) = "." THEN SubSeq(file, i, Len(file))
    ELSE splitext(file, i - 1)

UpperCase == "ABCDEFGHIJKLMNOPQRSTUVWXYZ"

LowerCase == "abcdefghijklmnopqrstuvwxyz"

\* ext.lower()
RECURSIVE LowerExt(_)
LowerExt(e) ==
    IF Len(e) = 0 THEN ""
    ELSE LET c == Char(e, 1)
             up == {k \in 1..26 : Char(UpperCase, k) = c}
         IN (IF up = {} THEN c ELSE Char(LowerCase, CHOOSE k \in up : TRUE))
            \o LowerExt(SubSeq(e, 2, Len(e)))

\* only the spreadsheets are ignored
ignore_extensions_excel_only == {".xlsx", ".xls"}

ignore_extensions == {".xlsx", ".xls", ".docx", ".doc"}

\* lines 844-869: the files the search of a directory appends
found_files(file_path, part_number) ==
    LET hits == SelectSeq(walk(file_path), LAMBDA f :
                    /\ Contains(f.file, part_number)
                    /\ isfile(join(f.root, f.file))
                    /\ LowerExt(splitext(f.file, Len(f.file))) \notin ignore_extensions)
    IN [i \in 1..Len(hits) |-> join(hits[i].root, hits[i].file)]

\* the attachments one queue row adds (lines 830-887)
row_attachments(r) ==
    LET file_path == Strip(r.file_path)
        part_number == Strip(r.part_number)
    IN IF ~exists(file_path) THEN <<>>
       ELSE IF isdir(file_path) THEN found_files(file_path, part_number)
       ELSE IF isfile(file_path) THEN <<file_path>>
       ELSE <<>>

\* r.part_number.strip() of line 833 is reached, and raises on a missing value
row_raises(r) == r.file_path # NaN /\ r.part_number = NaN

RECURSIVE get_attachment_paths(_)
get_attachment_paths(rows) ==
    IF rows = <<>> THEN <<>>
    ELSE LET r == rows[Len(rows)]
             front == get_attachment_paths(SubSeq(rows, 1, Len(rows) - 1))
         IN IF r.file_path # NaN THEN front \o row_attachments(r) ELSE front

attachments_raise(rows) == \E i \in 1..Len(rows) : row_raises(rows[i])

-----------------------------------------------------------------------------
(* create_email_body, as far as process_queue depends on it                *)

Subject(quote_id, process) == "RFQ for Quote " \o quote_id \o " - " \o process

\* templated mode joins the part numbers with ', '.join, which raises
\* TypeError on a missing value; the structural mode formats them
create_email_body_raises(process_items, use_template) ==
    /\ use_template
    /\ template_exists
    /\ \E i \in 1..Len(process_items) : process_items[i].part_number = NaN

\* Python's None
None == "None"

\* line 453: the 'spec' of the template context
context_spec(filtered_items) ==
    IF "spec" \in columns /\ \E i \in 1..Len(filtered_items) : filtered_items[i].spec # NaN
    THEN filtered_items[1].spec
    ELSE None

\* what create_email_body returns, as far as it is modelled: the subject, the
\* mode (line 437) and, in templated mode, the spec of the context that is
\* rendered into the body
create_email_body(process_items, process, use_template) ==
    [subject |-> Subject(process_items[1].quote_id, process),
     templated |-> use_template /\ template_exists,
     spec |-> IF use_template /\ template_exists THEN context_spec(process_items)
              ELSE None]

-----------------------------------------------------------------------------
(* process_queue: matching                                                 *)

unique_quotes == unique(Column(queue, "quote_id"))

items(quote_id) == SelectSeq(queue, LAMBDA r : r.quote_id = quote_id)

processes_needed(quote_id) == unique(Column(items(quote_id), "process"))

process_items_of(quote_id, process) ==
    SelectSeq(items(quote_id), LAMBDA r : r.process = process)

has_spec(process_items) ==
    /\ "spec" \in columns
    /\ \E i \in 1..Len(process_items) : process_items[i].spec # NaN

\* the comparison of line 767 for one vendor_process entry
declares(vendor_process, spec) ==
    /\ vendor_process.kind = "dict"
    /\ vendor_process.has_specs
    /\ \E k \in 1..Len(vendor_process.specs) :
          Lower(spec) = Lower(vendor_process.specs[k])

\* the loop of lines 763-769 for one vendor: the break of line 769 leaves the
\* loop over the specs only, so every declaring process appends the vendor
RECURSIVE spec_hits(_, _, _)
spec_hits(vendor_id, processes, spec) ==
    IF processes = <<>> THEN <<>>
    ELSE LET front == spec_hits(vendor_id, SubSeq(processes, 1, Len(processes) - 1), spec)
         IN IF declares(processes[Len(processes)], spec)
            THEN Append(front, vendor_id) ELSE front

\* the loop of lines 759-769 over the catalog
RECURSIVE spec_scan(_, _)
spec_scan(vinfo, spec) ==
    IF vinfo = <<>> THEN <<>>
    ELSE LET front == spec_scan(SubSeq(vinfo, 1, Len(vinfo) - 1), spec)
             info == vinfo[Len(vinfo)]
         IN IF ~info.has_processes THEN front
            ELSE front \o spec_hits(info.vendor_id, info.processes, spec)

\* spec.lower() of line 767 is evaluated for some vendor spec
spec_compared(vinfo) ==
    \E v \in 1..Len(vinfo) :
       /\ vinfo[v].has_processes
       /\ \E p \in 1..Len(vinfo[v].processes) :
             /\ vinfo[v].processes[p].kind = "dict"
             /\ vinfo[v].processes[p].has_specs
             /\ vinfo[v].processes[p].specs # <<>>

\* the test of lines 785-791 for one vendor_process entry
lists_process(vendor_process, process) ==
    \/ vendor_process.kind = "str" /\ Lower(process) = Lower(vendor_process.name)
    \/ vendor_process.kind = "dict" /\ Lower(process) = Lower(vendor_process.name)

\* the loop of lines 781-791
process_scan(vinfo, process) ==
    Column(SelectSeq(vinfo, LAMBDA info :
                /\ info.has_processes
                /\ \E p \in 1..Len(info.processes) :
                      lists_process(info.processes[p], process)),
           "vendor_id")

\* lines 744-791: the spec is the spec of the first row of the pair
match(process_items, process) ==
    LET spec == process_items[1].spec
    IN IF has_spec(process_items) /\ spec = NaN /\ spec_compared(vendor_info)
       THEN [raised |-> TRUE, vendors |-> <<>>]
       ELSE LET by_spec == IF has_spec(process_items)
                           THEN spec_scan(vendor_info, spec) ELSE <<>>
            IN [raised |-> FALSE,
                vendors |-> IF by_spec # <<>> THEN by_spec
                            ELSE process_scan(vendor_info, process)]

-----------------------------------------------------------------------------
(* process_queue: the loops                                                *)

cur_quote == unique_quotes[qi]

cur_process == processes_needed(cur_quote)[pi]

cur_items == process_items_of(cur_quote, cur_process)

\* log_email: one row appended to the log file
log_email(log, quote_id, vendor_id, status) ==
    Append(log, [quote_id |-> quote_id, vendor_id |-> vendor_id, status |-> status])

\* the next iteration of 'for process in processes_needed', or else of
\* 'for quote_id in unique_quotes'
next_pair ==
    /\ IF pi < Len(processes_needed(cur_quote))
       THEN qi' = qi /\ pi' = pi + 1
       ELSE qi' = qi + 1 /\ pi' = 1
    /\ phase' = "pair"
    /\ suitable_vendors' = <<>>
    /\ vi' = 1

\* an exception leaves process_queue; main() logs it and calls sys.exit(1)
raise(e) ==
    /\ pc' = "exit1"
    /\ error' = e

\* lines 729-734: with an empty catalog the quote is skipped before its
\* processes are counted
skip_quote ==
    /\ pc = "running"
    /\ phase = "pair"
    /\ qi <= Len(unique_quotes)
    /\ vendor_info = <<>>
    /\ qi' = qi + 1
    /\ sink' = "none"
    /\ UNCHANGED <<cli, inputs, vendor_info, pc, error, pi, phase, suitable_vendors, vi,
                   successful_drafts, total_quotes, audit, calls>>

\* lines 740-804: count the pair, match it, and audit it when nothing matches
match_pair ==
    /\ pc = "running"
    /\ phase = "pair"
    /\ qi <= Len(unique_quotes)
    /\ vendor_info # <<>>
    /\ total_quotes' = total_quotes + 1
    /\ LET m == match(cur_items, cur_process)
       IN IF m.raised
          THEN /\ raise("AttributeError")
               /\ UNCHANGED <<loopvars, audit>>
          ELSE IF m.vendors = <<>>
          THEN /\ audit' = log_email(audit, cur_quote, "NONE",
                                     "skipped_no_vendor_" \o cur_process)
               /\ next_pair
               /\ UNCHANGED <<pc, error>>
          ELSE /\ suitable_vendors' = m.vendors
               /\ vi' = 1
               /\ phase' = "vendor"
               /\ UNCHANGED <<qi, pi, pc, error, audit>>
    /\ sink' = "none"
    /\ UNCHANGED <<cli, inputs, vendor_info, successful_drafts, calls>>

\* the next iteration of 'for vendor_id in suitable_vendors', or else the next pair
next_vendor ==
    IF vi < Len(suitable_vendors)
    THEN vi' = vi + 1 /\ UNCHANGED <<qi, pi, phase, suitable_vendors>>
    ELSE next_pair

\* what the Outlook calls of create_draft_email can do: every attachment is
\* added and the draft saved; some attachment is no file any more and the
\* draft is saved without it; a COM call raises
SinkOutcomes(attachments) ==
    {"saved", "error"} \cup (IF attachments # <<>> THEN {"missing"} ELSE {})

\* the except clause reports the draft as created
create_draft_email_except_true(outcome) == outcome # "missing"

\* create_draft_email: the except clause turns an exception into False
create_draft_email(outcome) ==
    CASE outcome = "saved" -> TRUE
      [] outcome = "missing" -> FALSE
      [] outcome = "error" -> FALSE

\* lines 920-932: the status log_email gets
draft_status(success, process) ==
    IF success THEN "draft_saved_" \o process
    ELSE "draft_saved_with_issues_" \o process

\* the counter is incremented whatever the call returned
count_draft_always(n, success) == n + 1

\* lines 920-926: the counter after the call
count_draft(n, success) == IF success THEN n + 1 ELSE n

\* lines 807-932: one iteration of the vendor loop
draft_for_vendor ==
    /\ pc = "running"
    /\ phase = "vendor"
    /\ \E process_items \in {cur_items} :
       LET vendor_id == suitable_vendors[vi]
           k == KeyIndex(vendor_info, vendor_id)
       IN IF k = 0
          THEN /\ audit' = log_email(audit, cur_quote, vendor_id,
                                     "skipped_no_contact_" \o cur_process)
               /\ next_vendor
               /\ sink' = "none"
               /\ UNCHANGED <<pc, error, successful_drafts, calls>>
          ELSE IF attachments_raise(process_items)
          THEN /\ raise("AttributeError")
               /\ sink' = "none"
               /\ UNCHANGED <<loopvars, successful_drafts, audit, calls>>
          ELSE IF create_email_body_raises(process_items, template_exists)
          THEN /\ raise("TypeError")
               /\ sink' = "none"
               /\ UNCHANGED <<loopvars, successful_drafts, audit, calls>>
          ELSE \E attachments \in {get_attachment_paths(process_items)} :
               \E email \in {create_email_body(process_items, cur_process, template_exists)} :
               \E outcome \in SinkOutcomes(attachments) :
                     LET success == create_draft_email(outcome)
                     IN /\ calls' = Append(calls,
                               [recipient |-> vendor_info[k].email,
                                subject |-> email.subject,
                                body |-> [templated |-> email.templated,
                                          spec |-> email.spec],
                                attachments |-> attachments,
                                quote_id |-> cur_quote,
                                process |-> cur_process,
                                vendor_id |-> vendor_id])
                        /\ sink' = outcome
                        /\ audit' = log_email(audit, cur_quote, vendor_id,
                                              draft_status(success, cur_process))
                        /\ successful_drafts' = count_draft(successful_drafts, success)
                        /\ next_vendor
                        /\ UNCHANGED <<pc, error>>
    /\ UNCHANGED <<cli, inputs, vendor_info, total_quotes>>

\* line 934 and main(): process_queue returns and the ratio is reported
return ==
    /\ pc = "running"
    /\ phase = "pair"
    /\ qi > Len(unique_quotes)
    /\ pc' = "done"
    /\ sink' = "none"
    /\ UNCHANGED <<cli, inputs, vendor_info, error, loopvars, successful_drafts,
                   total_quotes, audit, calls>>

Next ==
    \/ load_data
    \/ initialize_outlook
    \/ skip_quote
    \/ match_pair
    \/ draft_for_vendor
    \/ return

-----------------------------------------------------------------------------
(* rfq_sender.py: validate_args                                            *)

\* rfq_sender.py is not running
NoArgs == [part_no |-> "", process |-> "", file_location |-> "", quantities |-> ""]

NotValidated == [valid |-> FALSE, message |-> "not validated"]

\* the position of the first ',' of s, 0 when there is none
RECURSIVE find_comma(_, _)
find_comma(s, i) ==
    IF i > Len(s) THEN 0
    ELSE IF Char(s, i) = "," THEN i
    ELSE find_comma(s, i + 1)

\* s.split(","): always at least one piece
RECURSIVE split(_)
split(s) ==
    LET k == find_comma(s, 1)
    IN IF k = 0 THEN <<s>>
       ELSE <<SubSeq(s, 1, k - 1)>> \o split(SubSeq(s, k + 1, Len(s)))

Digits == "0123456789"

is_digit(c) == \E d \in 1..10 : Char(Digits, d) = c

digit_value(c) == (CHOOSE d \in 1..10 : Char(Digits, d) = c) - 1

all_digits(s) == Len(s) > 0 /\ \A i \in 1..Len(s) : is_digit(Char(s, i))

has_sign(s) == Len(s) > 0 /\ Char(s, 1) \in {"+", "-"}

\* int(s) does not raise ValueError: an optional sign and decimal digits
is_int(s) == all_digits(IF has_sign(s) THEN SubSeq(s, 2, Len(s)) ELSE s)

RECURSIVE digits_value(_)
digits_value(s) ==
    IF Len(s) = 0 THEN 0
    ELSE 10 * digits_value(SubSeq(s, 1, Len(s) - 1)) + digit_value(Char(s, Len(s)))

\* int(s) as sign and magnitude, for a string int() accepts
int(s) ==
    IF has_sign(s)
    THEN [negative |-> Char(s, 1) = "-", magnitude |-> digits_value(SubSeq(s, 2, Len(s)))]
    ELSE [negative |-> FALSE, magnitude |-> digits_value(s)]

\* q < 0: zero passes
below_zero(q) == q.negative /\ q.magnitude > 0

\* line 142: q <= 0
not_positive(q) == q.magnitude = 0 \/ q.negative

\* lines 115-147
validate_args_result(a) ==
    IF Len(a.part_no) = 0 \/ Len(Strip(a.part_no)) = 0
    THEN [valid |-> FALSE, message |-> "Part number cannot be empty"]
    ELSE IF Len(a.process) = 0 \/ Len(Strip(a.process)) = 0
    THEN [valid |-> FALSE, message |-> "Process cannot be empty"]
    ELSE IF ~exists(a.file_location)
    THEN [valid |-> FALSE,
          message |-> "File location '" \o a.file_location \o "' does not exist"]
    ELSE LET pieces == split(a.quantities)
         IN IF \E i \in 1..Len(pieces) : ~is_int(Strip(pieces[i]))
            THEN [valid |-> FALSE, message |-> "Quantities must be comma-separated integers"]
            ELSE IF pieces = <<>>
            THEN [valid |-> FALSE, message |-> "Quantities list cannot be empty"]
            ELSE IF \E i \in 1..Len(pieces) : not_positive(int(Strip(pieces[i])))
            THEN [valid |-> FALSE, message |-> "Quantities must be positive integers"]
            ELSE [valid |-> TRUE, message |-> None]

\* main() of rfq_sender.py calls validate_args on the parsed arguments
validate_args ==
    /\ args # NoArgs
    /\ validation = NotValidated
    /\ validation' = validate_args_result(args)
    /\ UNCHANGED <<args, inputs, vendor_info, pc, error, loopvars, successful_drafts,
                   total_quotes, audit, calls, sink, helper, sending, mainvars>>

-----------------------------------------------------------------------------
(* rfq_sender.py: get_attachments, check_attachments, validate_email       *)

\* the state of the batch run, which rfq_sender.py leaves alone
batch == <<inputs, vendor_info, pc, error, loopvars, successful_drafts, total_quotes,
           audit, calls, sink>>

NoCall == [fn |-> "none"]

NotReturned == [done |-> FALSE]

Returned(v) == [done |-> TRUE, value |-> v]

\* str.lower()
str_lower(s) == LowerExt(s)

\* s.replace(old, new) for a one-character old
RECURSIVE replace(_, _, _)
replace(s, old, new) ==
    IF Len(s) = 0 THEN ""
    ELSE (IF Char(s, 1) = old THEN new ELSE Char(s, 1))
         \o replace(SubSeq(s, 2, Len(s)), old, new)

\* line 198
process_norm(process) == replace(replace(str_lower(process), " ", ""), "-", "")

\* the third pattern is dropped
patterns_with_process(part_no, process) ==
    << "*" \o part_no \o "*" \o process \o "*",
       "*" \o part_no \o "*" \o process_norm(process) \o "*" >>

\* lines 201-205
patterns(part_no, process) ==
    << "*" \o part_no \o "*" \o process \o "*",
       "*" \o part_no \o "*" \o process_norm(process) \o "*",
       "*" \o part_no \o "*" >>

\* a file name matches a pattern of literal characters and '*' wildcards
RECURSIVE glob_match(_, _)
glob_match(name, pattern) ==
    IF Len(pattern) = 0 THEN Len(name) = 0
    ELSE IF Char(pattern, 1) = "*"
    THEN \E k \in 0..Len(name) :
            glob_match(SubSeq(name, k + 1, Len(name)), SubSeq(pattern, 2, Len(pattern)))
    ELSE /\ Len(name) > 0
         /\ Char(name, 1) = Char(pattern, 1)
         /\ glob_match(SubSeq(name, 2, Len(name)), SubSeq(pattern, 2, Len(pattern)))

\* Path(file_location).glob(pattern): the entries of the directory whose
\* name matches, in listing order; nothing when there is no such directory
glob(file_location, pattern) ==
    IF ~isdir(file_location) THEN <<>>
    ELSE LET hits == SelectSeq(Disk, LAMBDA e :
                         e.dir = file_location /\ glob_match(e.name, pattern))
         IN [i \in 1..Len(hits) |-> join(file_location, hits[i].name)]

\* file_path == s for a Path file_path and a str s: PurePath.__eq__ knows
\* no str, so the comparison is False also when s names the same file
path_equals_str(file_path, s) == FALSE

\* line 212, 'file_path in matching_files': file_path is a Path and
\* matching_files holds the str values of line 213
path_in(file_path, matching_files) ==
    \E i \in 1..Len(matching_files) : path_equals_str(file_path, matching_files[i])

\* lines 211-213 for the paths one pattern yields
RECURSIVE add_matching(_, _)
add_matching(matching_files, file_paths) ==
    IF file_paths = <<>> THEN matching_files
    ELSE add_matching(
             IF isfile(Head(file_paths)) /\ ~path_in(Head(file_paths), matching_files)
             THEN Append(matching_files, Head(file_paths))
             ELSE matching_files,
             Tail(file_paths))

\* lines 208-213 for a list of patterns
RECURSIVE search(_, _, _)
search(matching_files, file_location, ps) ==
    IF ps = <<>> THEN matching_files
    ELSE search(add_matching(matching_files, glob(file_location, Head(ps))),
                file_location, Tail(ps))

\* lines 183-223
get_attachments(part_no, process, file_location) ==
    search(<<>>, file_location, patterns(part_no, process))

\* the files the process may not read
Unreadable == {"C:/jobs/PN123_quote.xlsx"}

\* os.path.exists, with the files main() wrote into directory temp
path_exists(p) == exists(p) \/ p \in temp

\* os.access(p, os.R_OK)
access(p) == path_exists(p) /\ p \notin Unreadable

\* a path that is there counts, readable or not
is_valid_exists(file_path) == path_exists(file_path)

\* line 392
is_valid(file_path) == path_exists(file_path) /\ access(file_path)

\* lines 378-397
check_attachments(attachments) ==
    [all_valid |-> SelectSeq(attachments, LAMBDA p : ~is_valid(p)) = <<>>,
     valid_attachments |-> SelectSeq(attachments, is_valid),
     invalid_attachments |-> SelectSeq(attachments, LAMBDA p : ~is_valid(p))]

\* the helper calls that are checked on their own
call_get_attachments ==
    /\ call.fn = "get_attachments"
    /\ ~returned.done
    /\ returned' = Returned(get_attachments(call.part_no, call.process, call.file_location))
    /\ UNCHANGED <<args, validation, call, sending, mainvars, batch>>

call_check_attachments ==
    /\ call.fn = "check_attachments"
    /\ ~returned.done
    /\ returned' = Returned(check_attachments(call.attachments))
    /\ UNCHANGED <<args, validation, call, sending, mainvars, batch>>

NextHelper == call_get_attachments \/ call_check_attachments

Letters == UpperCase \o LowerCase

LocalChars == Letters \o Digits \o "._%+-"

DomainChars == Letters \o Digits \o ".-"

\* every character of s[from..to] is one of class
all_in(s, from, to, class) ==
    \A i \in from..to : \E k \in 1..Len(class) : Char(class, k) = Char(s, i)

\* re.match of ^[a-zA-Z0-9._%+-]+@[a-zA-Z0-9.-]+\.[a-zA-Z]{2,} up to position
\* end of the string
matches_to(email, end) ==
    \E at \in 2..end : \E dot \in (at + 2)..(end - 2) :
        /\ Char(email, at) = "@"
        /\ Char(email, dot) = "."
        /\ all_in(email, 1, at - 1, LocalChars)
        /\ all_in(email, at + 1, dot - 1, DomainChars)
        /\ all_in(email, dot + 1, end, Letters)

\* lines 363-375; '$' matches at the end and before a final newline
validate_email(email) ==
    \/ matches_to(email, Len(email))
    \/ /\ Len(email) > 0
       /\ Char(email, Len(email)) = "\n"
       /\ matches_to(email, Len(email) - 1)

-----------------------------------------------------------------------------
(* rfq_sender.py: send_email                                               *)

Pending == "pending"

NoMail ==
    [to_email |-> "", subject |-> "", body |-> "", attachments |-> <<>>,
     dry_run |-> FALSE, max_retries |-> 0]

\* what an SMTP attempt (lines 486-522) does
Outcomes == {"sent", "SMTPServerDisconnected", "SMTPException", "Exception"}

\* the except clauses of lines 527 and 535
is_smtp_error(outcome) == outcome \in {"SMTPServerDisconnected", "SMTPException"}

RECURSIVE pow2(_)
pow2(n) == IF n = 0 THEN 1 ELSE 2 * pow2(n - 1)

\* the wait does not grow
backoff_flat(n) == 2

\* lines 530 and 538: time.sleep(2 ** attempt)
backoff(n) == pow2(n)

\* lines 502-512: the valid attachments that open() can read; a failure to
\* open one is logged and the file is left out
attached(valid_attachments) ==
    SelectSeq(valid_attachments, LAMBDA p : isfile(p) \/ p \in temp)

\* a dry run is tested before the address
send_email_checks_dry_run_first(m) ==
    IF m.dry_run THEN "True"
    ELSE IF ~validate_email(m.to_email) THEN "False"
    ELSE IF m.max_retries < 1 THEN None
    ELSE Pending

\* lines 466-485: what send_email returns before any SMTP attempt, Pending
\* when it enters the loop; with an empty range(1, max_retries + 1) the
\* function ends without a return statement, which returns None
send_email_checks(m) ==
    IF ~validate_email(m.to_email) THEN "False"
    ELSE IF m.dry_run THEN "True"
    ELSE IF m.max_retries < 1 THEN None
    ELSE Pending

\* lines 466-485: the checks before the loop
send_email ==
    /\ mail # NoMail
    /\ result = Pending
    /\ attempt = 0
    /\ result' = send_email_checks(mail)
    /\ attempt' = IF result' = Pending THEN 1 ELSE 0
    /\ UNCHANGED <<mail, smtp, sleeps, args, validation, helper, mainvars, batch>>

\* any other exception is retried like an SMTP error
after_attempt_retry_all(outcome, n, max_retries) ==
    IF outcome = "sent" THEN "True"
    ELSE IF n < max_retries THEN Pending
    ELSE "False"

\* lines 524-545: what send_email returns after attempt n did outcome,
\* Pending when it sleeps and tries again
after_attempt(outcome, n, max_retries) ==
    IF outcome = "sent" THEN "True"
    ELSE IF is_smtp_error(outcome)
    THEN IF n < max_retries THEN Pending ELSE "False"
    ELSE "False"

\* lines 486-545: one pass of the retry loop
smtp_attempt ==
    /\ mail # NoMail
    /\ result = Pending
    /\ attempt >= 1
    /\ \E outcome \in Outcomes :
          /\ smtp' = Append(smtp,
                 [attempt |-> attempt, outcome |-> outcome,
                  attachments |-> attached(check_attachments(mail.attachments).valid_attachments)])
          /\ result' = after_attempt(outcome, attempt, mail.max_retries)
          /\ IF result' = Pending
             THEN /\ sleeps' = Append(sleeps, backoff(attempt))
                  /\ attempt' = attempt + 1
             ELSE UNCHANGED <<sleeps, attempt>>
    /\ UNCHANGED <<mail, args, validation, helper, mainvars, batch>>

NextSend == send_email \/ smtp_attempt

-----------------------------------------------------------------------------
(* rfq_sender.py: handle_cui_compliance and main                           *)

\* the variable is not in os.environ
Unset == "unset"

\* line 412
enable_cui_protection ==
    str_lower(IF environ = Unset THEN "true" ELSE environ) = "true"

\* lines 422-425, CUI_WARNING_TEXT not set
cui_warning ==
    "This email contains Controlled Unclassified Information (CUI) that is "
    \o "subject to safeguarding or dissemination controls."

\* lines 418-421 and 652: vendor.get("approval_level", "").lower() == "cui"
is_cui(vendor) == str_lower(vendor.approval_level) = "cui"

\* lines 400-439
handle_cui_compliance(vendor, body) ==
    IF ~enable_cui_protection THEN body
    ELSE IF is_cui(vendor)
    THEN cui_warning \o "\n\n" \o body \o "\n\n" \o cui_warning
    ELSE body

\* line 630: the rendered cover letter, which names the vendor
cover_letter(vendor) == "Dear " \o vendor.name

\* lines 649-653, subject_prefix not configured
subject_of(vendor) ==
    LET subject == "[RFQ]" \o " " \o args.part_no \o " - " \o args.process
    IN IF is_cui(vendor) THEN "[CUI] " \o subject ELSE subject

\* lines 637-640
pricing_form_path(vendor) ==
    join("temp", "pricing_form_" \o args.part_no \o "_"
                 \o replace(vendor.name, " ", "_") \o ".md")

\* line 601
offers(vendor, process) ==
    \E i \in 1..Len(vendor.processes) :
        str_lower(vendor.processes[i]) = str_lower(process)

\* ",".join(ps)
RECURSIVE comma_join(_)
comma_join(ps) ==
    IF Len(ps) = 1 THEN ps[1]
    ELSE comma_join(SubSeq(ps, 1, Len(ps) - 1)) \o "," \o ps[Len(ps)]

\* str(n) for a natural number
RECURSIVE str(_)
str(n) ==
    IF n < 10 THEN Char(Digits, n + 1)
    ELSE str(n \div 10) \o Char(Digits, (n % 10) + 1)

\* line 596 and line 323: the quantities as log_rfq stores them
logged_quantities(quantities) ==
    LET pieces == split(quantities)
    IN comma_join([i \in 1..Len(pieces) |-> str(int(Strip(pieces[i])).magnitude)])

\* the default of parameter max_retries (line 449), which main() uses
DefaultMaxRetries == 3

\* lines 552-621: arguments, configuration, attachments, matching vendors;
\* the show-log subcommand (lines 558-581) only reads the table and is not
\* part of the model
main ==
    /\ mpc = "start"
    /\ validation' = validate_args_result(args)
    /\ IF ~validation'.valid
       THEN /\ mpc' = "exit1"
            /\ UNCHANGED matching_vendors
       ELSE /\ matching_vendors' = SelectSeq(config, LAMBDA v : offers(v, args.process))
            /\ mpc' = IF matching_vendors' = <<>> THEN "exit1" ELSE "loop"
    /\ vendor_index' = 1
    /\ success_count' = 0
    /\ UNCHANGED <<args, helper, sending, dry_run, environ, config, rfq_log, temp, batch>>

\* lines 625-662: the message for the next vendor, up to the call of send_email
main_vendor ==
    /\ mpc = "loop"
    /\ vendor_index <= Len(matching_vendors)
    /\ LET vendor == matching_vendors[vendor_index]
       IN /\ temp' = temp \cup {pricing_form_path(vendor)}
          /\ mail' = [to_email |-> vendor.email,
                      subject |-> subject_of(vendor),
                      body |-> handle_cui_compliance(vendor, cover_letter(vendor)),
                      attachments |->
                          get_attachments(args.part_no, args.process, args.file_location)
                          \o <<pricing_form_path(vendor)>>,
                      dry_run |-> dry_run,
                      max_retries |-> DefaultMaxRetries]
    /\ attempt' = 0
    /\ smtp' = <<>>
    /\ sleeps' = <<>>
    /\ result' = Pending
    /\ mpc' = "sending"
    /\ UNCHANGED <<args, validation, helper, dry_run, environ, config, matching_vendors,
                   vendor_index, success_count, rfq_log, batch>>

\* every success is logged, a dry run too
logs_row_always(sent) == sent

\* lines 655 and 666: send_email returned a true value and it is no dry run
logs_row(sent) == sent /\ ~dry_run

\* lines 288-329: the row log_rfq inserts
log_rfq(log, vendor) ==
    Append(log, [part_no |-> args.part_no, process |-> args.process,
                 vendor_name |-> vendor.name, vendor_email |-> vendor.email,
                 quantities |-> logged_quantities(args.quantities)])

\* lines 655-679: send_email has returned
main_sent ==
    /\ mpc = "sending"
    /\ result # Pending
    /\ LET vendor == matching_vendors[vendor_index]
           sent == result = "True"
       IN /\ success_count' = IF sent THEN success_count + 1 ELSE success_count
          /\ rfq_log' = IF logs_row(sent) THEN log_rfq(rfq_log, vendor) ELSE rfq_log
          /\ temp' = IF ~dry_run THEN temp \ {pricing_form_path(vendor)} ELSE temp
    /\ vendor_index' = vendor_index + 1
    /\ mpc' = "loop"
    /\ UNCHANGED <<args, validation, helper, sending, dry_run, environ, config,
                   matching_vendors, batch>>

\* lines 681-687
main_end ==
    /\ mpc = "loop"
    /\ vendor_index > Len(matching_vendors)
    /\ mpc' = "done"
    /\ UNCHANGED <<args, validation, helper, sending, dry_run, environ, config,
                   matching_vendors, vendor_index, success_count, rfq_log, temp, batch>>

NextMain == main \/ main_vendor \/ send_email \/ smtp_attempt \/ main_sent \/ main_end

-----------------------------------------------------------------------------
(* The parts of the state that are at rest in a run of another part        *)

helper_idle == call = NoCall /\ returned = NotReturned

sending_idle ==
    /\ mail = NoMail
    /\ attempt = 0
    /\ smtp = <<>>
    /\ sleeps = <<>>
    /\ result = Pending

main_idle ==
    /\ dry_run = FALSE
    /\ environ = Unset
    /\ config = <<>>
    /\ mpc = "idle"
    /\ matching_vendors = <<>>
    /\ vendor_index = 1
    /\ success_count = 0
    /\ rfq_log = <<>>
    /\ temp = {}

batch_idle ==
    /\ files = [queue |-> TRUE, contacts |-> TRUE, vendor_options |-> TRUE]
    /\ columns = AllColumns
    /\ template_exists = FALSE
    /\ queue = <<>>
    /\ contacts = <<>>
    /\ vendor_options = <<>>
    /\ vendor_info = <<>>
    /\ pc = "start"
    /\ error = "none"
    /\ qi = 1
    /\ pi = 1
    /\ phase = "pair"
    /\ suitable_vendors = <<>>
    /\ vi = 1
    /\ successful_drafts = 0
    /\ total_quotes = 0
    /\ audit = <<>>
    /\ calls = <<>>
    /\ sink = "none"

-----------------------------------------------------------------------------
(* The runs that are checked                                               *)

MaxLines == 2

Quotes == {"Q1", "Q2"}

QueueRow(q, p, s, pn, f) ==
    [quote_id |-> q, process |-> p, spec |-> s, part_number |-> pn, file_path |-> f]

\* rows with a part number and a drawing: Anodize rows carry a spec or none,
\* Plating rows none
CompleteRows(specs) ==
    {QueueRow(q, "Anodize", s, "PN123", "C:/rfq/PN123.pdf") : q \in Quotes, s \in specs}
    \cup {QueueRow(q, "Plating", NaN, "PN123", "C:/rfq/PN123.pdf") : q \in Quotes}

\* rows with an empty part number or an empty file location
PartialRows ==
    {QueueRow("Q1", "Anodize", NaN, NaN, "C:/rfq/PN123.pdf"),
     QueueRow("Q1", "Anodize", NaN, NaN, NaN),
     QueueRow("Q1", "Anodize", NaN, "PN123", NaN)}

Rows(specs) == CompleteRows(specs) \cup PartialRows

Queues(specs) == UNION {[1..n -> Rows(specs)] : n \in 0..MaxLines}

ContactRow(v, e) == [Vendor |-> v, Email |-> e, type |-> "finishing", primary |-> "Primary"]

Contact1 == ContactRow("V1", "v1@example.com")

Contact2 == ContactRow("V2", "v2@example.com")

StrProcess(n) == [kind |-> "str", name |-> n, has_specs |-> FALSE, specs |-> <<>>]

DictProcess(n, ss) == [kind |-> "dict", name |-> n, has_specs |-> TRUE, specs |-> ss]

DictProcessNoSpecs(n) == [kind |-> "dict", name |-> n, has_specs |-> FALSE, specs |-> <<>>]

VendorOption(v, ps) == [name |-> v, has_processes |-> TRUE, processes |-> ps]

\* what a vendor of the capability tree can offer
ProcessLists1 ==
    { <<StrProcess("ANODIZE")>>,
      <<DictProcess("Anodize", <<"mil-a-8625">>)>>,
      <<DictProcess("Anodize", <<"mil-a-8625">>), DictProcess("Plating", <<"AMS-2404", "mil-a-8625">>)>>,
      <<DictProcess("Plating", <<"AMS-2404">>)>>,
      <<DictProcessNoSpecs("Anodize")>> }

ProcessLists2 ==
    { <<StrProcess("ANODIZE")>>,
      <<DictProcess("Plating", <<"mil-a-8625">>)>> }

\* the capability tree has an entry for a contact or none
Options(v, lists) == {<<>>} \cup {<<VendorOption(v, ps)>> : ps \in lists}

Catalogs ==
    {<<<<>>, <<>>>>}
    \cup {<<<<Contact1>>, o>> : o \in Options("V1", ProcessLists1)}
    \cup {<<<<Contact1, Contact2>>, o1 \o o2>> :
             o1 \in Options("V1", ProcessLists1), o2 \in Options("V2", ProcessLists2)}

FileStates == [queue : BOOLEAN, contacts : BOOLEAN, vendor_options : BOOLEAN]

\* every column is there, or one of these is not
ColumnSets ==
    {AllColumns}
    \cup {AllColumns \ {c} : c \in {"quote_id", "part_number", "process", "file_path", "spec"}}

\* scenario 1 of the specification, for the runs whose load fails
Scenario1Queue ==
    << QueueRow("Q1", "Anodize", "MIL-A-8625", "PN123", "C:/rfq/PN123.pdf"),
       QueueRow("Q1", "Anodize", NaN, "PN123", "C:/rfq/PN123.pdf") >>

Loadable(f, c) ==
    /\ f.queue /\ f.contacts /\ f.vendor_options
    /\ {"quote_id", "part_number", "process", "file_path"} \subseteq c

Init ==
    /\ files \in FileStates
    /\ columns \in ColumnSets
    /\ template_exists \in BOOLEAN
    /\ IF Loadable(files, columns)
       THEN /\ queue \in Queues(IF "spec" \in columns THEN {NaN, "MIL-A-8625"} ELSE {NaN})
            /\ \E c \in Catalogs : contacts = c[1] /\ vendor_options = c[2]
       ELSE /\ queue = Scenario1Queue
            /\ contacts = <<Contact1, Contact2>>
            /\ vendor_options = <<VendorOption("V1", <<DictProcess("Anodize", <<"mil-a-8625">>)>>),
                                  VendorOption("V2", <<StrProcess("ANODIZE")>>)>>
    /\ vendor_info = <<>>
    /\ pc = "start"
    /\ error = "none"
    /\ qi = 1
    /\ pi = 1
    /\ phase = "pair"
    /\ suitable_vendors = <<>>
    /\ vi = 1
    /\ successful_drafts = 0
    /\ total_quotes = 0
    /\ audit = <<>>
    /\ calls = <<>>
    /\ sink = "none"
    /\ args = NoArgs
    /\ validation = NotValidated
    /\ helper_idle
    /\ sending_idle
    /\ main_idle

Spec == Init /\ [][Next]_vars

\* the runs over the locations of the disk: one quote, one process, line
\* items with a part number (padded or not) and a file location that is a
\* file, a directory, a padded directory name, a path that is not there or a
\* link whose target is gone; one line item has no part number, one no
\* file location
AttachParts == {"PN123", " PN123 ", "PN999"}

AttachLocations ==
    {"C:/rfq/PN123.pdf", "C:/jobs", " C:/jobs ", "C:/parts", "C:/gone",
     "C:/parts/PN123_old.pdf"}

AttachRows ==
    {QueueRow("Q1", "Anodize", NaN, pn, f) : pn \in AttachParts, f \in AttachLocations}
    \cup {QueueRow("Q1", "Anodize", NaN, NaN, "C:/gone"),
          QueueRow("Q1", "Anodize", NaN, "PN123", NaN)}

InitAttach ==
    /\ files = [queue |-> TRUE, contacts |-> TRUE, vendor_options |-> TRUE]
    /\ columns = AllColumns
    /\ template_exists \in BOOLEAN
    /\ queue \in UNION {[1..n -> AttachRows] : n \in 0..MaxLines}
    /\ \/ contacts = <<>> /\ vendor_options = <<>>
       \/ /\ contacts = <<Contact1>>
          /\ vendor_options = <<VendorOption("V1", <<StrProcess("ANODIZE")>>)>>
    /\ vendor_info = <<>>
    /\ pc = "start"
    /\ error = "none"
    /\ qi = 1
    /\ pi = 1
    /\ phase = "pair"
    /\ suitable_vendors = <<>>
    /\ vi = 1
    /\ successful_drafts = 0
    /\ total_quotes = 0
    /\ audit = <<>>
    /\ calls = <<>>
    /\ sink = "none"
    /\ args = NoArgs
    /\ validation = NotValidated
    /\ helper_idle
    /\ sending_idle
    /\ main_idle

SpecAttach == InitAttach /\ [][Next]_vars

\* the loads of a contact source and a capability tree: contact rows of any
\* type, with and without the primary flag, with a padded vendor name, an
\* email, a padded, a blank or an empty email cell; capability entries whose
\* name is a contact's name, differs from it in case or padding, or is
\* nobody's, with or without the 'processes' key
MaxContacts == 2

LoadContactRows ==
    [Vendor : {"V1", " V2 "}, Email : {"rfq@example.com ", "  ", NaN},
     type : {"finishing", "material"}, primary : {"Primary", NaN}]

LoadOptions ==
    {<<>>}
    \cup {<<VendorOption(n, <<StrProcess("ANODIZE")>>)>> : n \in {"V1", "v1", "V2", " V2 ", "V3"}}
    \cup {<< VendorOption("V1", <<StrProcess("ANODIZE")>>),
             VendorOption("V1", <<DictProcess("Plating", <<"AMS-2404">>)>>) >>,
          << VendorOption("V2", <<StrProcess("ANODIZE")>>),
             [name |-> "V2", has_processes |-> FALSE, processes |-> <<>>] >>}

InitLoad ==
    /\ files = [queue |-> TRUE, contacts |-> TRUE, vendor_options |-> TRUE]
    /\ columns = AllColumns
    /\ template_exists = FALSE
    /\ queue = <<>>
    /\ contacts \in UNION {[1..n -> LoadContactRows] : n \in 0..MaxContacts}
    /\ vendor_options \in LoadOptions
    /\ vendor_info = <<>>
    /\ pc = "start"
    /\ error = "none"
    /\ qi = 1
    /\ pi = 1
    /\ phase = "pair"
    /\ suitable_vendors = <<>>
    /\ vi = 1
    /\ successful_drafts = 0
    /\ total_quotes = 0
    /\ audit = <<>>
    /\ calls = <<>>
    /\ sink = "none"
    /\ args = NoArgs
    /\ validation = NotValidated
    /\ helper_idle
    /\ sending_idle
    /\ main_idle

SpecLoad == InitLoad /\ [][load_data]_vars

\* the command lines of rfq_sender.py: --quantities is up to MaxQuantities
\* pieces joined by commas, each a positive, zero or negative integer,
\* padded or signed, or no integer
MaxQuantities == 2

PositivePieces == {"1", " 5 ", "10", "+2"}

IntegerPieces == PositivePieces \cup {"0", "-5", "-0"}

Pieces == IntegerPieces \cup {"abc", "", "1.5", "-"}

\* the strings of 1 to MaxQuantities pieces from set S
Joined(S) == {comma_join(ps) : ps \in UNION {[1..n -> S] : n \in 1..MaxQuantities}}

QuantityStrings == Joined(Pieces)

InitArgs ==
    /\ args \in [part_no : {"0250-20000", "", "   "},
                  process : {"cleaning", "", "   "},
                  file_location : {"C:/jobs", "C:/rfq/PN123.pdf", "C:/gone"},
                  quantities : QuantityStrings]
    /\ validation = NotValidated
    /\ files = [queue |-> TRUE, contacts |-> TRUE, vendor_options |-> TRUE]
    /\ columns = AllColumns
    /\ template_exists = FALSE
    /\ queue = <<>>
    /\ contacts = <<>>
    /\ vendor_options = <<>>
    /\ vendor_info = <<>>
    /\ pc = "start"
    /\ error = "none"
    /\ qi = 1
    /\ pi = 1
    /\ phase = "pair"
    /\ suitable_vendors = <<>>
    /\ vi = 1
    /\ successful_drafts = 0
    /\ total_quotes = 0
    /\ audit = <<>>
    /\ calls = <<>>
    /\ sink = "none"
    /\ helper_idle
    /\ sending_idle
    /\ main_idle

SpecArgs == InitArgs /\ [][validate_args]_vars

\* the direct calls of get_attachments and check_attachments: part numbers
\* that are in a file name, in several, in part of one or in none; process
\* names that are in a file name as written, only once normalized or not at
\* all; locations that are a directory, a file, a dangling link or missing;
\* up to MaxAttachments paths to check, of a file, an unreadable file, a
\* directory, a dangling link and a missing file
HelperParts == {"PN123", "PN999", "PN1", "PN124", "rev2"}

HelperProcesses == {"drawing", "Draw-ing", "Not es", "cleaning", "README"}

HelperLocations ==
    {"C:/jobs", "C:/parts", "C:/rfq", "C:/parts/sub", "C:/parts/sub/PN123",
     "C:/gone", "C:/rfq/PN123.pdf", "C:/parts/PN123_old.pdf"}

MaxAttachments == 2

CheckPaths ==
    {"C:/jobs/PN123_drawing.pdf", "C:/jobs/PN123_quote.xlsx", "C:/jobs",
     "C:/parts/PN123_old.pdf", "C:/gone/PN123.pdf"}

InitHelper ==
    /\ \/ call \in [fn : {"get_attachments"}, part_no : HelperParts,
                    process : HelperProcesses, file_location : HelperLocations]
       \/ call \in [fn : {"check_attachments"},
                    attachments : UNION {[1..n -> CheckPaths] : n \in 0..MaxAttachments}]
    /\ returned = NotReturned
    /\ args = NoArgs
    /\ validation = NotValidated
    /\ sending_idle
    /\ main_idle
    /\ batch_idle

SpecHelper == InitHelper /\ [][NextHelper]_vars

\* the direct calls of send_email: addresses validate_email accepts and
\* rejects, attachment lists with and without a missing file, dry runs and
\* real runs, and every max_retries from -1 to MaxRetries
MaxRetries == 3

Addresses ==
    {"test@example.com", "user.name+tag@example.co.uk", "user-name@example.org\n",
     "test@", "@example.com", "test@example", "test.example.com", "a@b.c",
     "a b@example.com"}

AttachmentLists ==
    {<<>>, <<"C:/jobs/PN123_drawing.pdf">>,
     <<"C:/jobs/PN123_drawing.pdf", "C:/gone/PN123.pdf">>}

InitSend ==
    /\ mail \in [to_email : Addresses, subject : {"[RFQ] PN123 - Anodize"},
                 body : {"Dear Acme"}, attachments : AttachmentLists,
                 dry_run : BOOLEAN, max_retries : -1..MaxRetries]
    /\ attempt = 0
    /\ smtp = <<>>
    /\ sleeps = <<>>
    /\ result = Pending
    /\ args = NoArgs
    /\ validation = NotValidated
    /\ helper_idle
    /\ main_idle
    /\ batch_idle

SpecSend == InitSend /\ [][NextSend]_vars

\* the runs of main(): up to MaxVendors configured vendors, with and
\* without CUI approval, with a good and a bad address, listing the process
\* or not; quantities that pass and that fail validate_args
MaxVendors == 2

Vendor(n, e, a, ps) == [name |-> n, email |-> e, approval_level |-> a, processes |-> ps]

Vendors ==
    {Vendor("Acme", "rfq@acme.com", "cui", <<"anodize", "Plating">>),
     Vendor("Best Co", "sales@bestco", "standard", <<"Anodize">>),
     Vendor("Core", "quotes@core.io", "CUI", <<"ANODIZE">>),
     Vendor("Delta", "d@delta.org", "", <<"Plating", "Anodize">>),
     Vendor("Echo", "e@echo.net", "cui", <<"Plating">>)}

InitMain ==
    /\ args \in [part_no : {"PN123"}, process : {"Anodize"},
                 file_location : {"C:/jobs"}, quantities : {" 5 ,+2", "0"}]
    /\ validation = NotValidated
    /\ dry_run \in BOOLEAN
    /\ environ \in {Unset, "TRUE", "false"}
    /\ config \in UNION {[1..n -> Vendors] : n \in 0..MaxVendors}
    /\ mpc = "start"
    /\ matching_vendors = <<>>
    /\ vendor_index = 1
    /\ success_count = 0
    /\ rfq_log = <<>>
    /\ temp = {}
    /\ helper_idle
    /\ sending_idle
    /\ batch_idle

SpecMain == InitMain /\ [][NextMain]_vars


-----------------------------------------------------------------------------
(* Vocabulary of the properties                                            *)

\* the distinct (quote_id, process) pairs of the queue
QueuePairs == {<<queue[i].quote_id, queue[i].process>> : i \in 1..Len(queue)}

PairRows(q, p) == SelectSeq(queue, LAMBDA r : r.quote_id = q /\ r.process = p)

\* the spec the line items of a pair carry: the first one that is set
RECURSIVE FirstSpec(_)
FirstSpec(rows) ==
    IF rows = <<>> THEN NaN
    ELSE IF rows[1].spec # NaN THEN rows[1].spec
    ELSE FirstSpec(Tail(rows))

PairSpec(q, p) == IF "spec" \in columns THEN FirstSpec(PairRows(q, p)) ELSE NaN

\* the catalog vendors that declare spec number s, case-insensitively
DeclaringVendors(s) ==
    {vendor_info[v].vendor_id : v \in
        {v \in 1..Len(vendor_info) :
            /\ vendor_info[v].has_processes
            /\ \E p \in 1..Len(vendor_info[v].processes) :
                  LET vp == vendor_info[v].processes[p]
                  IN /\ vp.kind = "dict"
                     /\ vp.has_specs
                     /\ \E k \in 1..Len(vp.specs) : Lower(vp.specs[k]) = Lower(s)}}

\* the catalog vendors that list process name p, case-insensitively
ProcessVendors(p) ==
    {vendor_info[v].vendor_id : v \in
        {v \in 1..Len(vendor_info) :
            /\ vendor_info[v].has_processes
            /\ \E k \in 1..Len(vendor_info[v].processes) :
                  Lower(vendor_info[v].processes[k].name) = Lower(p)}}

CallsFor(q, p) == SelectSeq(calls, LAMBDA c : c.quote_id = q /\ c.process = p)

Recipients(q, p) == {c.vendor_id : c \in Range(CallsFor(q, p))}

AuditWith(q, status) == SelectSeq(audit, LAMBDA a : a.quote_id = q /\ a.status = status)

\* every row of the queue has a part number and a file location
CompleteQueue ==
    \A i \in 1..Len(queue) : queue[i].part_number # NaN /\ queue[i].file_path # NaN

\* process_queue was entered and has ended, by returning or by an exception
process_queue_raised == pc = "exit1" /\ error \in {"AttributeError", "TypeError"}

process_queue_ended == pc = "done" \/ process_queue_raised

-----------------------------------------------------------------------------
(* C1: for every pair whose line items carry a spec that some catalog      *)
(* vendor declares (case-insensitively), the vendors that get a mail-sink  *)
(* call are exactly the vendors declaring that spec.  Stated for queues    *)
(* whose rows all have a part number and a file location, at the end of    *)
(* process_queue.  The code takes the spec from the first row of the pair, *)
(* so a pair whose first row has no spec raises instead.                    *)
C1_SpecBasisRecipients ==
    (process_queue_ended /\ CompleteQueue) =>
        \A pr \in QueuePairs :
            LET s == PairSpec(pr[1], pr[2])
            IN (s # NaN /\ DeclaringVendors(s) # {}) =>
                   Recipients(pr[1], pr[2]) = DeclaringVendors(s)

(* C2: for every pair with no spec, or whose spec no catalog vendor        *)
(* declares, the recipients are exactly the vendors listing the process    *)
(* name (case-insensitively), and nobody when there is none.  Stated for   *)
(* queues whose rows all have a part number and a file location, at the    *)
(* end of process_queue.                                                   *)
C2_ProcessFallbackRecipients ==
    (process_queue_ended /\ CompleteQueue) =>
        \A pr \in QueuePairs :
            LET s == PairSpec(pr[1], pr[2])
            IN (s = NaN \/ DeclaringVendors(s) = {}) =>
                   Recipients(pr[1], pr[2]) = ProcessVendors(pr[2])

\* scenario 1: one quote, two Anodize lines, exactly one of them with the
\* spec; V1 declares the spec, V2 lists the process name only
Scenario1 ==
    /\ Len(queue) = 2
    /\ CompleteQueue
    /\ "spec" \in columns
    /\ queue[1].quote_id = queue[2].quote_id
    /\ queue[1].process = "Anodize" /\ queue[2].process = "Anodize"
    /\ {queue[1].spec, queue[2].spec} = {"MIL-A-8625", NaN}
    /\ vendor_info =
          << [vendor_id |-> "V1", email |-> "v1@example.com", vendor_name |-> "V1",
              has_processes |-> TRUE,
              processes |-> <<DictProcess("Anodize", <<"mil-a-8625">>)>>],
             [vendor_id |-> "V2", email |-> "v2@example.com", vendor_name |-> "V2",
              has_processes |-> TRUE,
              processes |-> <<StrProcess("ANODIZE")>>] >>

CallsTo(v) == SelectSeq(calls, LAMBDA c : c.vendor_id = v)

(* C3: in scenario 1, with the spec on either of the two lines, the run    *)
(* completes, V1 receives exactly one message and V2 none.                 *)
C3_Scenario1EitherLine ==
    (Scenario1 /\ process_queue_ended) =>
        /\ pc = "done"
        /\ Len(CallsTo("V1")) = 1
        /\ Len(CallsTo("V2")) = 0

(* C4: the second value process_queue returns is the number of distinct    *)
(* (quote_id, process) pairs of the queue, for every catalog.              *)
C4_TotalCountsPairs ==
    pc = "done" => total_quotes = Cardinality(QueuePairs)

\* no vendor matches the pair, by spec or by process name
Unmatched(q, p) ==
    /\ PairSpec(q, p) = NaN \/ DeclaringVendors(PairSpec(q, p)) = {}
    /\ ProcessVendors(p) = {}

(* C5: every pair that no vendor matches has exactly one audit record      *)
(* skipped_no_vendor_<process> and no mail-sink call, and is counted in    *)
(* the total, when process_queue returns.                                  *)
C5_UnmatchedAuditedOnce ==
    pc = "done" =>
        /\ \A pr \in QueuePairs :
              Unmatched(pr[1], pr[2]) =>
                  /\ Len(AuditWith(pr[1], "skipped_no_vendor_" \o pr[2])) = 1
                  /\ CallsFor(pr[1], pr[2]) = <<>>
        /\ total_quotes >= Cardinality({pr \in QueuePairs : Unmatched(pr[1], pr[2])})

\* the audit row of the latest mail-sink call, with the given status prefix
LastCallAudit(prefix) ==
    [quote_id |-> calls[Len(calls)].quote_id,
     vendor_id |-> calls[Len(calls)].vendor_id,
     status |-> prefix \o calls[Len(calls)].process]

\* the loop position after one iteration of the vendor loop at the unprimed
\* position: the next vendor of the pair, or else the next pair
VendorLoopAdvanced ==
    IF vi < Len(suitable_vendors)
    THEN /\ phase' = "vendor" /\ vi' = vi + 1
         /\ suitable_vendors' = suitable_vendors /\ qi' = qi /\ pi' = pi
    ELSE /\ phase' = "pair"
         /\ IF pi < Len(processes_needed(unique_quotes[qi]))
            THEN qi' = qi /\ pi' = pi + 1
            ELSE qi' = qi + 1 /\ pi' = 1

SavedStatuses == {"draft_saved_" \o queue[i].process : i \in 1..Len(queue)}

SavedCount == Len(SelectSeq(audit, LAMBDA a : a.status \in SavedStatuses))

C8_ProcessQueueNeverRaises == ~process_queue_raised

\* an input file is missing, or the queue lacks a required column
LoadMustFail ==
    \/ ~files.queue \/ ~files.contacts \/ ~files.vendor_options
    \/ \E c \in {"quote_id", "part_number", "process", "file_path"} : c \notin columns

(* C9: when an input file is missing or the queue lacks a required column, *)
(* the run stops with an error at load_data: no pair is counted or         *)
(* matched, no mail-sink call is made and no audit record is written.      *)
C9_LoadErrorStopsBeforeMatching ==
    LoadMustFail =>
        /\ pc \in {"start", "exit1"}
        /\ pc = "exit1" => error \in {"FileNotFoundError", "ValueError"}
        /\ total_quotes = 0
        /\ suitable_vendors = <<>>
        /\ calls = <<>>
        /\ audit = <<>>

\* every file exists, the queue has rows but no file location column, and
\* the run has stopped
C9_Witness ==
    /\ files_exist
    /\ "file_path" \notin columns
    /\ queue # <<>>
    /\ pc = "exit1"
    /\ error = "ValueError"

StatusesOf(p) ==
    {"draft_saved_" \o p, "draft_saved_with_issues_" \o p,
     "skipped_no_contact_" \o p}

(* C10: for every pair, each catalog vendor gets at most one mail-sink     *)
(* call and at most one audit record, and each call goes to that vendor's  *)
(* address only.                                                           *)
C10_OneCallPerVendorAndPair ==
    /\ \A pr \in QueuePairs : \A v \in 1..Len(vendor_info) :
          /\ Len(SelectSeq(CallsFor(pr[1], pr[2]),
                           LAMBDA c : c.vendor_id = vendor_info[v].vendor_id)) <= 1
          /\ Len(SelectSeq(audit, LAMBDA a : /\ a.quote_id = pr[1]
                                             /\ a.vendor_id = vendor_info[v].vendor_id
                                             /\ a.status \in StatusesOf(pr[2]))) <= 1
    /\ \A i \in 1..Len(calls) : \E v \in 1..Len(vendor_info) :
          /\ vendor_info[v].vendor_id = calls[i].vendor_id
          /\ vendor_info[v].email = calls[i].recipient

\* no element of the sequence occurs at two positions
NoDuplicates(s) == \A i, j \in 1..Len(s) : s[i] = s[j] => i = j

(* C11: the attachment list handed to create_email_body and to             *)
(* create_draft_email contains no path twice, also when two line items of  *)
(* one process point to the same file or directory.                        *)
C11_AttachmentsDistinct ==
    \A i \in 1..Len(calls) : NoDuplicates(calls[i].attachments)

\* string a begins with string b
StartsWith(a, b) == Len(a) >= Len(b) /\ SubSeq(a, 1, Len(b)) = b

\* the entries of the disk that are regular files below directory d, at any depth
Below(d) ==
    {i \in 1..Len(Disk) : Disk[i].kind = "file" /\ StartsWith(DiskPaths[i], d \o "/")}

\* the rows of the pair a call was made for
CallRows(c) == PairRows(c.quote_id, c.process)

\* path a comes from the location of row r: it is the location, or lies below it
ResolvedFrom(a, r) ==
    /\ r.file_path # NaN
    /\ PathKind(Strip(r.file_path)) \in {"file", "dir"}
    /\ a = Strip(r.file_path) \/ StartsWith(a, Strip(r.file_path) \o "/")

(* C12: every path of an attachment list is an existing regular file, and  *)
(* comes from a line item whose file location exists: it is that location  *)
(* or lies below it.  A location that does not exist adds nothing.         *)
C12_AttachmentsAreExistingFiles ==
    \A i \in 1..Len(calls) :
        \A k \in 1..Len(calls[i].attachments) :
            /\ PathKind(calls[i].attachments[k]) = "file"
            /\ \E j \in 1..Len(CallRows(calls[i])) :
                  ResolvedFrom(calls[i].attachments[k], CallRows(calls[i])[j])

\* a call for a pair with one line item whose location is not there and one
\* whose directory lists a link with a gone target next to the files attached
C12_Witness ==
    \E i \in 1..Len(calls) :
        /\ calls[i].attachments # <<>>
        /\ \E j \in 1..Len(CallRows(calls[i])) :
              CallRows(calls[i])[j].file_path = "C:/gone"
        /\ \E j \in 1..Len(CallRows(calls[i])) :
              /\ CallRows(calls[i])[j].file_path = "C:/parts"
              /\ CallRows(calls[i])[j].part_number = "PN123"

\* every line item of the call's pair names a directory
OnlyDirectories(c) ==
    \A j \in 1..Len(CallRows(c)) :
        /\ CallRows(c)[j].file_path # NaN
        /\ PathKind(CallRows(c)[j].file_path) = "dir"

\* os.path.splitext of a file name
ExtensionOf(name) == splitext(name, Len(name))

\* the files below the row's directory whose name contains part number pn
\* and whose extension, passed through f, is none of the four
Searched(r, pn, f(_)) ==
    {DiskPaths[i] : i \in
        {i \in Below(r.file_path) :
            /\ Contains(Disk[i].name, pn)
            /\ f(ExtensionOf(Disk[i].name)) \notin {".xlsx", ".xls", ".docx", ".doc"}}}

AsWritten(e) == e

\* scenario 3: one line item, part number PN123, in the directory that holds
\* PN123_drawing.pdf and PN123_quote.xlsx
Scenario3(c) ==
    CallRows(c) = <<QueueRow(c.quote_id, c.process, NaN, "PN123", "C:/jobs")>>

(* C13 as stated: for line items that name a directory, the files attached *)
(* are exactly the files below it, at any depth, whose name contains the   *)
(* line's part_number and whose extension is none of .xlsx, .xls, .docx,   *)
(* .doc; scenario 3 yields exactly PN123_drawing.pdf.                      *)
C13_DirectorySearchAsStated ==
    \A i \in 1..Len(calls) :
        /\ OnlyDirectories(calls[i]) =>
               Range(calls[i].attachments) =
                   UNION {Searched(r, r.part_number, AsWritten) : r \in Range(CallRows(calls[i]))}
        /\ Scenario3(calls[i]) => calls[i].attachments = <<"C:/jobs/PN123_drawing.pdf">>

(* C13, amended: the part number is compared without its surrounding       *)
(* blanks and the extension regardless of case.                            *)
C13_DirectorySearch ==
    \A i \in 1..Len(calls) :
        /\ OnlyDirectories(calls[i]) =>
               Range(calls[i].attachments) =
                   UNION {Searched(r, Strip(r.part_number), LowerExt) : r \in Range(CallRows(calls[i]))}
        /\ Scenario3(calls[i]) => calls[i].attachments = <<"C:/jobs/PN123_drawing.pdf">>

\* a call for two line items: a padded part number in the directory with a
\* .DOCX file and files two levels down, and the line item of scenario 3
C13_Witness ==
    \E i \in 1..Len(calls) :
        /\ CallRows(calls[i]) =
              << QueueRow("Q1", "Anodize", NaN, " PN123 ", "C:/parts"),
                 QueueRow("Q1", "Anodize", NaN, "PN123", "C:/jobs") >>
        /\ calls[i].attachments =
              << "C:/parts/sub/PN123/rev2_PN123.PDF", "C:/parts/sub/PN123/PN123_README",
                 "C:/jobs/PN123_drawing.pdf" >>

\* the line item names a location that is not there, or a directory in
\* which the search finds no file
Barren(r) ==
    /\ r.file_path # NaN
    /\ \/ ~exists(Strip(r.file_path))
       \/ /\ r.part_number # NaN
          /\ isdir(Strip(r.file_path))
          /\ row_attachments(r) = <<>>

(* C14: when process_queue has ended, every pair with a line item whose    *)
(* location does not exist or whose directory search finds nothing has,    *)
(* for each vendor that lists its process, a mail-sink call whose          *)
(* attachments are those of the other line items of the pair.              *)
C14_BarrenItemDoesNotStopPair ==
    process_queue_ended =>
        \A pr \in QueuePairs :
            (\E j \in 1..Len(PairRows(pr[1], pr[2])) : Barren(PairRows(pr[1], pr[2])[j])) =>
                \A v \in ProcessVendors(pr[2]) :
                    \E i \in 1..Len(calls) :
                        /\ calls[i].quote_id = pr[1]
                        /\ calls[i].process = pr[2]
                        /\ calls[i].vendor_id = v
                        /\ calls[i].attachments =
                              get_attachment_paths(
                                  SelectSeq(PairRows(pr[1], pr[2]), LAMBDA r : ~Barren(r)))

\* the first row of the queue with quote q, and with quote q and process p
FirstRow(q) ==
    CHOOSE i \in 1..Len(queue) :
        /\ queue[i].quote_id = q
        /\ \A j \in 1..(i - 1) : queue[j].quote_id # q

FirstPairRow(q, p) ==
    CHOOSE i \in 1..Len(queue) :
        /\ queue[i].quote_id = q /\ queue[i].process = p
        /\ \A j \in 1..(i - 1) : ~(queue[j].quote_id = q /\ queue[j].process = p)

\* pair (q1, p1) comes before pair (q2, p2) in the order of first appearance
PairBefore(q1, p1, q2, p2) ==
    IF q1 = q2 THEN FirstPairRow(q1, p1) < FirstPairRow(q2, p2)
    ELSE FirstRow(q1) < FirstRow(q2)

\* the position of a vendor in the catalog, 0 for the vendor 'NONE' of a
\* skipped pair
CatalogIndex(v) ==
    IF \E k \in 1..Len(vendor_info) : vendor_info[k].vendor_id = v
    THEN CHOOSE k \in 1..Len(vendor_info) : vendor_info[k].vendor_id = v
    ELSE 0

\* the process an audit record is about
AuditProcess(a) ==
    CHOOSE p \in {queue[i].process : i \in 1..Len(queue)} :
        a.status \in StatusesOf(p) \cup {"skipped_no_vendor_" \o p}

\* record x was made before record y, x for (q1, p1, v1) and y for (q2, p2, v2)
InVisitOrder(q1, p1, v1, q2, p2, v2) ==
    /\ ~PairBefore(q2, p2, q1, p1)
    /\ (q1 = q2 /\ p1 = p2) => CatalogIndex(v1) <= CatalogIndex(v2)

(* C15: the mail-sink calls and the audit records are in the order quote   *)
(* (first appearance in the queue), process within the quote (first        *)
(* appearance), vendor (catalog order): none for a later quote or process  *)
(* precedes one for an earlier quote or process.                           *)
C15_VisitOrder ==
    /\ \A i, j \in 1..Len(calls) :
          i < j => InVisitOrder(calls[i].quote_id, calls[i].process, calls[i].vendor_id,
                                calls[j].quote_id, calls[j].process, calls[j].vendor_id)
    /\ \A i, j \in 1..Len(audit) :
          i < j => InVisitOrder(audit[i].quote_id, AuditProcess(audit[i]), audit[i].vendor_id,
                                audit[j].quote_id, AuditProcess(audit[j]), audit[j].vendor_id)

\* quote Q2 is the first row and Q1 the second; both vendors got a call for
\* Q2, V1 first, before the first call for Q1
C15_Witness ==
    /\ Len(queue) = 2 /\ queue[1].quote_id = "Q2" /\ queue[2].quote_id = "Q1"
    /\ Len(calls) >= 3 /\ Len(audit) >= 3
    /\ calls[1].quote_id = "Q2" /\ calls[1].vendor_id = "V1"
    /\ calls[2].quote_id = "Q2" /\ calls[2].vendor_id = "V2"
    /\ calls[3].quote_id = "Q1"

\* the keys of the catalog
CatalogKeys == {vendor_info[k].vendor_id : k \in 1..Len(vendor_info)}

\* the capability entries with name n
OptionsNamed(n) ==
    {k \in 1..Len(vendor_options) : vendor_options[k].name = n}

\* the catalog entry has the processes of a capability entry with exactly its
\* name, and none when no capability entry with that name has any
EnrichedByExactName(e) ==
    IF e.has_processes
    THEN \E k \in OptionsNamed(e.vendor_id) :
            /\ vendor_options[k].has_processes
            /\ vendor_options[k].processes = e.processes
    ELSE /\ e.processes = <<>>
         /\ \A k \in OptionsNamed(e.vendor_id) : ~vendor_options[k].has_processes

\* a capability entry whose name is no key adds no vendor and changes no entry:
\* the catalog is the one the load builds without the entries of that kind
UnmatchedIgnored ==
    vendor_info =
        BuildVendorInfo(contacts,
                        SelectSeq(vendor_options, LAMBDA o : o.name \in CatalogKeys))

\* the contact rows of type finishing that carry the primary flag
FlaggedContacts ==
    {contacts[i] : i \in {i \in 1..Len(contacts) :
        contacts[i].type = "finishing" /\ contacts[i].primary = "Primary"}}

(* C16 as stated: after load_data, the keys of the catalog are the vendors *)
(* of the contact rows of type finishing with the primary flag and a       *)
(* non-empty email; a capability entry whose name is no contact vendor     *)
(* name adds no vendor and changes no catalog entry.                       *)
C16_CatalogKeysAsStated ==
    pc = "loaded" =>
        /\ CatalogKeys = {r.Vendor : r \in {r \in FlaggedContacts :
                                              r.Email # NaN /\ r.Email # ""}}
        /\ \A k \in 1..Len(vendor_info) : EnrichedByExactName(vendor_info[k])
        /\ UnmatchedIgnored

\* the rows the filter keeps: without any row that carries the primary flag,
\* every row of type finishing
FilteredContacts ==
    IF \E i \in 1..Len(contacts) : contacts[i].primary = "Primary"
    THEN FlaggedContacts
    ELSE {contacts[i] : i \in {i \in 1..Len(contacts) : contacts[i].type = "finishing"}}

(* C16, amended: vendor names and emails are taken without their           *)
(* surrounding blanks, an email of blanks counts as empty, and when no row *)
(* of the contact source carries the primary flag the filter is the type   *)
(* alone.                                                                  *)
C16_CatalogKeys ==
    pc = "loaded" =>
        /\ CatalogKeys = {Strip(r.Vendor) : r \in {r \in FilteredContacts :
                                                     r.Email # NaN /\ Strip(r.Email) # ""}}
        /\ \A k \in 1..Len(vendor_info) : EnrichedByExactName(vendor_info[k])
        /\ UnmatchedIgnored

\* V1 has a flagged row with a padded email, V2's email is blank, and the
\* capability tree names 'v1': V1 alone is in the catalog, without processes
C16_Witness ==
    /\ pc = "loaded"
    /\ vendor_options = <<VendorOption("v1", <<StrProcess("ANODIZE")>>)>>
    /\ contacts = << [Vendor |-> "V1", Email |-> "rfq@example.com ",
                       type |-> "finishing", primary |-> "Primary"],
                      [Vendor |-> " V2 ", Email |-> "  ",
                       type |-> "finishing", primary |-> "Primary"] >>
    /\ vendor_info = << [vendor_id |-> "V1", email |-> "rfq@example.com",
                          vendor_name |-> "V1", has_processes |-> FALSE,
                          processes |-> <<>>] >>

\* the statuses of the audit records about process p
PairStatuses(p) ==
    {"skipped_no_vendor_" \o p, "draft_saved_" \o p, "draft_saved_with_issues_" \o p}

(* C17: when process_queue returns, every (quote_id, process) pair of the  *)
(* queue has at least one audit record skipped_no_vendor_<process>,        *)
(* draft_saved_<process> or draft_saved_with_issues_<process>, for every   *)
(* catalog, the empty one included.                                        *)
C17_EveryPairAudited ==
    pc = "done" =>
        \A pr \in QueuePairs :
            \E i \in 1..Len(audit) :
                audit[i].quote_id = pr[1] /\ audit[i].status \in PairStatuses(pr[2])

(* C19: in templated mode the spec of the template context is the first    *)
(* spec that is set among the items of the process, in queue order, and    *)
(* is absent only when no item has a spec.                                 *)
C19_ContextSpecIsFirstNonNull ==
    \A i \in 1..Len(calls) :
        calls[i].body.templated =>
            calls[i].body.spec =
                (IF PairSpec(calls[i].quote_id, calls[i].process) # NaN
                 THEN PairSpec(calls[i].quote_id, calls[i].process)
                 ELSE None)

\* the string has a character that is no blank
NonBlank(s) == \E i \in 1..Len(s) : Char(s, i) # " "

\* the quantities strings that list integers only, and positive integers only
IntegerLists == Joined(IntegerPieces)

PositiveLists == Joined(PositivePieces)

\* the result the claim gives for arguments a: the first failing check in
\* the order part number, process, file location, quantities
ExpectedValidation(a) ==
    IF ~NonBlank(a.part_no)
    THEN [valid |-> FALSE, message |-> "Part number cannot be empty"]
    ELSE IF ~NonBlank(a.process)
    THEN [valid |-> FALSE, message |-> "Process cannot be empty"]
    ELSE IF PathKind(a.file_location) \notin {"file", "dir"}
    THEN [valid |-> FALSE,
          message |-> "File location '" \o a.file_location \o "' does not exist"]
    ELSE IF a.quantities \notin IntegerLists
    THEN [valid |-> FALSE, message |-> "Quantities must be comma-separated integers"]
    ELSE IF a.quantities \notin PositiveLists
    THEN [valid |-> FALSE, message |-> "Quantities must be positive integers"]
    ELSE [valid |-> TRUE, message |-> None]

(* C20: validate_args returns (True, None) iff part_no and process are     *)
(* non-blank, file_location exists and quantities is a comma-separated     *)
(* list of positive integers; otherwise False with the message of the      *)
(* first failing check in the order part number, process, file location,   *)
(* quantities: 'Quantities must be comma-separated integers' for an empty  *)
(* or non-integer quantities string, 'Quantities must be positive          *)
(* integers' for a zero or negative value.                                 *)
C20_ValidateArgs ==
    validation # NotValidated =>
        /\ validation = ExpectedValidation(args)
        /\ validation.valid <=>
               /\ NonBlank(args.part_no)
               /\ NonBlank(args.process)
               /\ PathKind(args.file_location) \in {"file", "dir"}
               /\ args.quantities \in PositiveLists

\* every other argument is good and the quantities are a padded 5 and a zero
C20_Witness ==
    /\ args = [part_no |-> "0250-20000", process |-> "cleaning",
                file_location |-> "C:/jobs", quantities |-> " 5 ,0"]
    /\ validation = [valid |-> FALSE, message |-> "Quantities must be positive integers"]

-----------------------------------------------------------------------------
(* Claims about get_attachments and check_attachments                      *)

\* the call under test has returned
HelperReturned(fn) == call.fn = fn /\ returned.done

\* s with the elements that are not in set S left out
Restricted(s, S) == SelectSeq(s, LAMBDA x : x \in S)

\* the path is there (a link counts by its target) and may be read
ExistsAndReadable(p) == PathKind(p) \in {"file", "dir"} /\ p \notin Unreadable

(* C21: check_attachments partitions its input: every input path is in     *)
(* exactly one of the two lists, in the valid list iff it exists and is    *)
(* readable; each list is the input with the other list's paths left out,  *)
(* so it keeps the input order; the first result is True iff the invalid   *)
(* list is empty.                                                          *)
C21_CheckAttachmentsPartitions ==
    HelperReturned("check_attachments") =>
        LET attachments == call.attachments
            valid == returned.value.valid_attachments
            invalid == returned.value.invalid_attachments
        IN /\ \A p \in Range(attachments) :
                  /\ (p \in Range(valid)) # (p \in Range(invalid))
                  /\ p \in Range(valid) <=> ExistsAndReadable(p)
           /\ valid = Restricted(attachments, Range(valid))
           /\ invalid = Restricted(attachments, Range(invalid))
           /\ returned.value.all_valid <=> invalid = <<>>

C21_Witness ==
    /\ HelperReturned("check_attachments")
    /\ call.attachments = <<"C:/jobs/PN123_quote.xlsx", "C:/jobs/PN123_drawing.pdf">>
    /\ returned.value = [all_valid |-> FALSE,
                         valid_attachments |-> <<"C:/jobs/PN123_drawing.pdf">>,
                         invalid_attachments |-> <<"C:/jobs/PN123_quote.xlsx">>]

\* the regular files directly inside directory d whose name contains part_no
FilesNaming(d, part_no) ==
    {join(Disk[i].dir, Disk[i].name) : i \in
        {k \in 1..Len(Disk) : /\ Disk[k].dir = d
                              /\ Disk[k].kind = "file"
                              /\ Contains(Disk[k].name, part_no)}}

(* C22: get_attachments returns every regular file directly inside         *)
(* file_location whose name contains part_no, whether or not the process   *)
(* name follows it, and no file whose name does not contain part_no.       *)
C22_GetAttachmentsByPartNumber ==
    HelperReturned("get_attachments") =>
        Range(returned.value) = FilesNaming(call.file_location, call.part_no)

C22_Witness ==
    /\ HelperReturned("get_attachments")
    /\ call.part_no = "PN123"
    /\ call.process = "cleaning"
    /\ call.file_location = "C:/parts"
    /\ returned.value = <<"C:/parts/PN123_notes.DOCX">>

(* C30: get_attachments returns each matching file at most once, also when *)
(* the file matches more than one of the three search patterns.            *)
C30_EachFileOnce ==
    HelperReturned("get_attachments") => NoDuplicates(returned.value)

-----------------------------------------------------------------------------
(* Claims about send_email                                                 *)

\* smtplib.SMTPException and its subclasses
SMTPErrors == {"SMTPServerDisconnected", "SMTPException"}

\* send_email has returned
Sent == mail # NoMail /\ result # Pending

\* 2, 4, ..., 2^n
Waits(n) == [i \in 1..n |-> 2 ^ i]

(* C23: the attempts of a send_email call are numbered 1, 2, ... and none  *)
(* has a number above max_retries; only the last attempt can have sent the *)
(* message, and then send_email returns True; once send_email has returned *)
(* after attempts that all raised an SMTP error, it has returned False,    *)
(* the attempts are exactly max_retries, and the waits were 2^1, 2^2, ...  *)
(* seconds, one after each attempt but the last.                           *)
C23_RetriesAndBackoff ==
    /\ \A i \in 1..Len(smtp) :
          /\ smtp[i].attempt = i
          /\ i <= mail.max_retries
          /\ smtp[i].outcome = "sent" => i = Len(smtp) /\ result = "True"
    /\ (/\ Sent
        /\ smtp # <<>>
        /\ \A i \in 1..Len(smtp) : smtp[i].outcome \in SMTPErrors)
       => /\ result = "False"
          /\ Len(smtp) = mail.max_retries
          /\ sleeps = Waits(Len(smtp) - 1)

C23_Witness ==
    /\ Sent
    /\ mail.max_retries = 3
    /\ [i \in 1..Len(smtp) |-> smtp[i].outcome]
           = <<"SMTPException", "SMTPServerDisconnected", "SMTPException">>
    /\ sleeps = <<2, 4>>
    /\ result = "False"

(* C24: an attempt that raised an exception that is no SMTP error is the   *)
(* last attempt of the call: send_email has returned False, and the only   *)
(* waits are those after the attempts before it, whatever max_retries is.  *)
C24_OtherExceptionEndsCall ==
    \A i \in 1..Len(smtp) :
        smtp[i].outcome \notin SMTPErrors \cup {"sent"} =>
            /\ i = Len(smtp)
            /\ result = "False"
            /\ Len(sleeps) = i - 1

C24_Witness ==
    /\ Sent
    /\ mail.max_retries = 3
    /\ Len(smtp) = 1
    /\ smtp[1].outcome = "Exception"
    /\ sleeps = <<>>
    /\ result = "False"

\* the addresses of the model that are well-formed; Python's '$' lets a
\* final newline pass
WellFormed ==
    {"test@example.com", "user.name+tag@example.co.uk", "user-name@example.org\n",
     "rfq@acme.com", "quotes@core.io", "d@delta.org", "e@echo.net"}

(* C25: a send_email call whose recipient address is not well-formed makes *)
(* no SMTP attempt and returns False, dry run or not; a dry run makes no   *)
(* SMTP attempt and, for a well-formed address, returns True, whether or   *)
(* not every attachment is there.                                          *)
C25_NoConnectionForBadAddressOrDryRun ==
    mail # NoMail =>
        /\ mail.to_email \notin WellFormed =>
               /\ smtp = <<>>
               /\ Sent => result = "False"
        /\ mail.dry_run =>
               /\ smtp = <<>>
               /\ (Sent /\ mail.to_email \in WellFormed) => result = "True"

C25_Witness ==
    /\ Sent
    /\ mail.dry_run
    /\ mail.to_email = "test@example"
    /\ mail.attachments = <<"C:/jobs/PN123_drawing.pdf", "C:/gone/PN123.pdf">>
    /\ smtp = <<>>
    /\ result = "False"

(* C29: send_email returns True or False on every path, for every value of *)
(* max_retries, given a valid recipient and dry_run unset.                 *)
C29_ReturnsBoolean ==
    (Sent /\ mail.to_email \in WellFormed /\ ~mail.dry_run) =>
        result \in {"True", "False"}

-----------------------------------------------------------------------------
(* Claims about main() of rfq_sender.py                                    *)

\* the vendor main()'s loop is at
CurrentVendor == matching_vendors[vendor_index]

\* the step in which main() takes what send_email returned
TakesResult == mpc = "sending" /\ mpc' = "loop"

(* C26: main adds a row to rfq_log in a step iff the step takes a True     *)
(* result of send_email and the run is no dry run, and the row names the   *)
(* vendor of that call; so a dry run never has a row, and a run that is no *)
(* dry run has as many rows as the success count it reports.               *)
C26_RowPerRealSuccess ==
    [][/\ IF TakesResult /\ result = "True" /\ ~dry_run
          THEN /\ Len(rfq_log') = Len(rfq_log) + 1
               /\ SubSeq(rfq_log', 1, Len(rfq_log)) = rfq_log
               /\ rfq_log'[Len(rfq_log')].vendor_name = CurrentVendor.name
               /\ rfq_log'[Len(rfq_log')].vendor_email = CurrentVendor.email
               /\ success_count' = success_count + 1
          ELSE rfq_log' = rfq_log
       /\ dry_run' => rfq_log' = <<>>
       /\ ~dry_run' => Len(rfq_log') = success_count'
      ]_vars

C26_Witness ==
    /\ mpc = "done"
    /\ ~dry_run
    /\ Len(matching_vendors) = 2
    /\ success_count = 1
    /\ Len(rfq_log) = 1
    /\ rfq_log[1].vendor_name = "Core"
    /\ rfq_log[1].quantities = "5,2"

\* the body with the CUI warning at the top and at the bottom
Warned(body) == cui_warning \o "\n\n" \o body \o "\n\n" \o cui_warning

(* C27: for every vendor and every setting of ENABLE_CUI_PROTECTION, the   *)
(* subject main passes to send_email starts with "[CUI] " iff the body is  *)
(* the cover letter with the CUI warning at the top and at the bottom; for *)
(* a vendor whose approval level is not cui the subject and the body are   *)
(* the plain ones.                                                         *)
C27_SubjectAndBodyAgree ==
    mpc = "sending" =>
        LET plain == "[RFQ] " \o args.part_no \o " - " \o args.process
            letter == "Dear " \o CurrentVendor.name
        IN /\ StartsWith(mail.subject, "[CUI] ") <=> mail.body = Warned(letter)
           /\ CurrentVendor.approval_level \notin {"cui", "CUI"} =>
                  mail.subject = plain /\ mail.body = letter

(* C28: when process_queue has returned, its success count is at most its  *)
(* total count.                                                            *)
C28_SuccessAtMostTotal ==
    pc = "done" => successful_drafts <= total_quotes

====
